---- MODULE Spec2Model ----
(***************************************************************************)
(* The file-processing workflow of src/20250423_0002/refactoring:          *)
(* Application.run -> Application._process_data -> for every input file    *)
(* ProcessDataWorkflow.process_data (open, record loop inside              *)
(* process_data_event_context, move to archive or error directory) and     *)
(* ProcessDataWorkflow.write_database (DatabaseManager.insert_result).     *)
(*                                                                         *)
(* One run of the program is modelled.  The environment chooses the batch  *)
(* (number of files, rows per file), the outcome of every record (the      *)
(* transform draws random.random()), and whether an I/O call (open, read,  *)
(* write, rename) fails.                                                   *)
(***************************************************************************)
EXTENDS Integers, Sequences, FiniteSets, TLC

\* Bounds of the model.
MaxFiles == 2
MaxRecords == 5
MaxProcessTime == 1

\* Most files, and most data rows of a file, when process_data is called
\* for every file of the batch.
MaxWorkflowFiles == 2

MaxWorkflowRecords == 2

\* Most fields of a line of the input file.
MaxCells == 4

\* Largest `total` of a RetryDataFetcher besides the one of fetch_data, and
\* the larger of the two initial waits.
MaxTotal == 2

MaxWaitTime == 3

\* Most listeners a client subscribes to one dispatcher.
MaxListeners == 2

\* Most rows the results table of an earlier run holds.
MaxPriorRows == 2

\* Most get_summary calls a client makes in a row.
MaxSummaryCalls == 2

\* Latest reading of datetime.now().
MaxClock == 1

\* processor.py:89  `if content.stats.error_rate > 0.2`, as a percentage.
ERROR_RATE_LIMIT_PERCENT == 20

VARIABLES
    pc,             \* position of Application.run
    input_files,    \* the batch: file f has input_files[f] data rows
    idx,            \* loop variable of Application._process_data (0: not started)
    input_dir,      \* files present in config.input_dir
    archive_dir,    \* files present in config.archive_dir
    error_dir,      \* files present in config.error_dir
    output_files,   \* output_dir: file -> number of data rows written (domain: existing outputs)
    streams_open,   \* the input and output streams of open_csv_file are open
    pos,            \* rows the csv reader has handed to the loop
    stats,          \* the Stats object of the current process_data call
    exc,            \* exception raised in the try block of process_data ("None": none)
    connection,     \* DatabaseManager._connection
    db_exc,         \* exception raised inside `with self._db_manger`
    rows,           \* table `results` of the database
    process_time,   \* Timer value handed to write_database
    run_error,      \* exception that left Application.run ("None": none)
    process_calls,  \* file -> number of DataProcessor.process invocations
    exceeded,       \* files whose error rate was above 0.2 after an on-error notification
    recorder_errors, \* number of insert_result calls that raised
    returned_stats, \* the Stats process_data has returned, in call order
    listeners,      \* BaseDispatcher._listeners of a dispatcher a client fills
    notified,       \* what the last notify of that dispatcher did
    summary,        \* what the get_summary calls since the last insert did
    report,         \* the summaries ReportGenerator.generate has emitted
    discarded,      \* rows the last DatabaseManager construction discarded
    retry_config,   \* arguments RetryDataFetcher was constructed with
    status_code,    \* DataFetcher.status_code of the last response
    wait_time,      \* RetryDataFetcher._wait_time
    attempt,        \* iterations of the loop of start that ran fetcher.retry()
    waits,          \* the asyncio.sleep durations of start, in order
    printed,        \* the messages start has printed
    fieldnames,     \* csv.DictReader.fieldnames: the header of the input file
    cells,          \* the fields of the line the reader parses next
    row,            \* the dict the reader hands to the loop of process_data
    processed       \* what the body of the loop did with that row

vars == <<pc, input_files, idx, input_dir, archive_dir, error_dir, output_files,
          streams_open, pos, stats, exc, connection, db_exc, rows, process_time,
          run_error, process_calls, exceeded, recorder_errors, returned_stats,
          listeners, notified, summary, report, discarded, retry_config,
          status_code, wait_time, attempt, waits, printed, fieldnames,
          cells, row, processed>>

\* One record on its way through the body of the loop of process_data.
record_vars == <<fieldnames, cells, row, processed>>

\* The state of RetryDataFetcher.
retry_vars == <<retry_config, status_code, wait_time, attempt, waits, printed>>

\* The state of the components when a client drives them directly.
client_vars ==
    <<listeners, notified, summary, report, discarded, retry_vars, record_vars>>

Files == DOMAIN input_files

----------------------------------------------------------------------------
\* processor.py: Stats

Stats == [records |-> 0, success |-> 0, errors |-> 0]

increment_records(s) == [s EXCEPT !.records = @ + 1]

increment_success(s) == [s EXCEPT !.success = @ + 1]

increment_errors(s) == [s EXCEPT !.errors = @ + 1]

\* Variant of the comparison below: `>=` in place of `>`.
error_rate_at_least_limit(s) ==
    IF s.records = 0 THEN FALSE
    ELSE s.errors * 100 >= ERROR_RATE_LIMIT_PERCENT * s.records

\* Stats.error_rate > 0.2.  error_rate is 0.0 when records = 0, else the
\* float errors / records; for counters of this size the float comparison
\* with 0.2 agrees with the exact comparison errors/records > 20/100.
error_rate_exceeds_limit(s) ==
    IF s.records = 0 THEN FALSE
    ELSE s.errors * 100 > ERROR_RATE_LIMIT_PERCENT * s.records

----------------------------------------------------------------------------
\* processor.py: the listeners.  A listener maps the Stats of its context to
\* the Stats it leaves and the exception it raises ("None": returns).

\* Variant of on_before_process_listener that does not count the record.
on_before_process_listener_uncounted(s) == [stats |-> s, raised |-> "None"]

on_before_process_listener(s) ==
    [stats |-> increment_records(s), raised |-> "None"]

\* Variant of on_after_process_listener that does not count the success.
on_after_process_listener_uncounted(s) == [stats |-> s, raised |-> "None"]

on_after_process_listener(s) ==
    [stats |-> increment_success(s), raised |-> "None"]

\* Variant of on_error_process_listener that does not count the error.
on_error_process_listener_uncounted(s) ==
    [stats |-> s,
     raised |-> IF error_rate_exceeds_limit(s) THEN "RuntimeError" ELSE "None"]

on_error_process_listener(s) ==
    LET t == increment_errors(s)
    IN  [stats |-> t,
         raised |-> IF error_rate_exceeds_limit(t) THEN "RuntimeError" ELSE "None"]

\* util.py: BaseDispatcher.  The three module-level dispatchers with the
\* listeners subscribed at import time, in subscription order.
on_before_process == <<"on_before_process_listener">>

on_after_process == <<"on_after_process_listener">>

on_error_process == <<"on_error_process_listener">>

CallListener(listener, s) ==
    CASE listener = "on_before_process_listener" -> on_before_process_listener(s)
      [] listener = "on_after_process_listener"  -> on_after_process_listener(s)
      [] listener = "on_error_process_listener"  -> on_error_process_listener(s)

RECURSIVE notify_continuing(_, _)
\* Variant of notify below that calls every listener whatever the earlier
\* ones raised, and then raises the first exception.
notify_continuing(subscribed, s) ==
    IF subscribed = <<>> THEN [stats |-> s, raised |-> "None", called |-> <<>>]
    ELSE LET r == CallListener(Head(subscribed), s)
             call == [listener |-> Head(subscribed), raised |-> r.raised]
             rest == notify_continuing(Tail(subscribed), r.stats)
         IN  [stats |-> rest.stats,
              raised |-> IF r.raised # "None" THEN r.raised ELSE rest.raised,
              called |-> <<call>> \o rest.called]

\* BaseDispatcher.notify: the listeners in list order; the first one that
\* raises ends the loop and its exception leaves notify.  `called` lists the
\* calls made, each with the listener and what it raised.
RECURSIVE notify(_, _)
notify(subscribed, s) ==
    IF subscribed = <<>> THEN [stats |-> s, raised |-> "None", called |-> <<>>]
    ELSE LET r == CallListener(Head(subscribed), s)
             call == [listener |-> Head(subscribed), raised |-> r.raised]
         IN  IF r.raised # "None"
             THEN [stats |-> r.stats, raised |-> r.raised, called |-> <<call>>]
             ELSE LET rest == notify(Tail(subscribed), r.stats)
                  IN  [rest EXCEPT !.called = <<call>> \o @]

\* Variant of the except branch below that counts the error and then
\* suppresses every exception, so that the `with` statement ends normally.
process_data_event_context_except_suppressing(s, e) ==
    [stats |-> increment_errors(s), raised |-> "None"]

\* process_data_event_context, `except Exception as e`: notify on-error, then
\* the bare `raise` re-raises e; an exception of a listener replaces e.
process_data_event_context_except(s, e) ==
    LET r == notify(on_error_process, s)
    IN  [stats |-> r.stats,
         raised |-> IF r.raised # "None" THEN r.raised ELSE e]

\* process_data_event_context up to `yield`: notify before-record.
process_data_event_context_enter(s) ==
    LET r == notify(on_before_process, s)
    IN  IF r.raised = "None" THEN r
        ELSE process_data_event_context_except(r.stats, r.raised)

\* Variant of the exit below that notifies after-record whatever the body
\* raised, and then on-error when it raised.
process_data_event_context_exit_after_always(s, body_exc) ==
    LET r == notify(on_after_process, s)
    IN  IF body_exc = "None" /\ r.raised = "None" THEN r
        ELSE process_data_event_context_except(
                 r.stats, IF body_exc # "None" THEN body_exc ELSE r.raised)

\* process_data_event_context after `yield`: body_exc is what the body of the
\* `with` statement raised ("None": it ended normally).
process_data_event_context_exit(s, body_exc) ==
    IF body_exc = "None"
    THEN LET r == notify(on_after_process, s)
         IN  IF r.raised = "None" THEN r
             ELSE process_data_event_context_except(r.stats, r.raised)
    ELSE process_data_event_context_except(s, body_exc)

----------------------------------------------------------------------------
\* processor.py: InputData and DataProcessor.  A Python value is a record
\* [type, num, text]: a float carries num, its value in hundredths; a str
\* carries text; None carries neither.

PyStr(t) == [type |-> "str", num |-> 0, text |-> t]

PyFloat(n) == [type |-> "float", num |-> n, text |-> ""]

PyNone == [type |-> "NoneType", num |-> 0, text |-> ""]

\* The TypeError of an operation on operands of unsupported types.
PyTypeError == [type |-> "TypeError", num |-> 0, text |-> ""]

\* x * c for the float constant c, given in hundredths: defined on floats;
\* str * float and None * float are a TypeError.
mul_float(x, c) ==
    IF x.type = "float" THEN PyFloat((x.num * c) \div 100) ELSE PyTypeError

\* x * 2, the int 2: a float is doubled, a str is repeated twice.
mul_two(x) ==
    CASE x.type = "float" -> PyFloat(x.num * 2)
      [] x.type = "str"   -> PyStr(x.text \o x.text)
      [] OTHER            -> PyTypeError

\* x + y: floats are added, strs are concatenated.
add(x, y) ==
    CASE x.type = "float" /\ y.type = "float" -> PyFloat(x.num + y.num)
      [] x.type = "str" /\ y.type = "str"     -> PyStr(x.text \o y.text)
      [] OTHER                                -> PyTypeError

\* x / 2: defined on floats only.
div_two(x) ==
    IF x.type = "float" THEN PyFloat(x.num \div 2) ELSE PyTypeError

\* round(x, 2): a float in hundredths is its own rounding; a str has no
\* __round__ and an operand that already failed stays failed.
round_two(x) == IF x.type = "float" THEN x ELSE PyTypeError

\* InputData: the dataclass stores value1 and value2 as they are passed;
\* the float annotation converts nothing.
InputData_value(cell) == cell

\* The fields of InputData.
InputDataFields == {"value1", "value2", "category"}

\* InputData(**row): a missing or an unexpected keyword is a TypeError.
InputData(kwargs) ==
    IF DOMAIN kwargs # InputDataFields
    THEN [raised |-> "TypeError", data |-> kwargs]
    ELSE [raised |-> "None",
          data |-> [value1 |-> InputData_value(kwargs.value1),
                    value2 |-> InputData_value(kwargs.value2),
                    category |-> kwargs.category]]

\* DataProcessor._calculate_analysis_result: the branch of the category,
\* then round(result, 2); any exception gives the string "ERROR".
calculate_analysis_result(data) ==
    LET is(c) == data.category.type = "str" /\ data.category.text = c
        result ==
            IF is("a")
            THEN add(mul_float(data.value1, 150), mul_float(data.value2, 50))
            ELSE IF is("b") THEN add(data.value1, mul_two(data.value2))
            ELSE IF is("c")
            THEN mul_float(div_two(add(data.value1, data.value2)), 300)
            ELSE add(data.value1, data.value2)
        rounded == round_two(result)
    IN  IF rounded.type = "TypeError" THEN PyStr("ERROR") ELSE rounded

\* DataProcessor.process: ValueError with probability 5% (random_error),
\* else the Result with the analysis result.
process(data, random_error) ==
    IF random_error
    THEN [raised |-> "ValueError", analysis_result |-> PyNone]
    ELSE [raised |-> "None",
          analysis_result |-> calculate_analysis_result(data)]

\* The body of `with process_data_event_context(stats)` for one row:
\* InputData(**row), processor.process(data), writer.writerow.
process_row(kwargs, random_error) ==
    LET d == InputData(kwargs)
    IN  IF d.raised # "None"
        THEN [raised |-> d.raised, analysis_result |-> PyNone]
        ELSE process(d.data, random_error)

----------------------------------------------------------------------------
\* csv.DictReader

\* restkey: the key of the fields beyond the header.
RestKey == "None"

\* DictReader.__next__ for a line with the fields `line` under the header
\* `header`: the fields are zipped with the header; a short line gets None
\* (restval) for the missing keys, a long line its surplus under restkey.
DictReader_row(header, line) ==
    LET named == {header[i] : i \in DOMAIN header}
        keys  == IF Len(line) > Len(header) THEN named \cup {RestKey} ELSE named
        last(k) == CHOOSE i \in DOMAIN header :
                      /\ header[i] = k
                      /\ \A j \in DOMAIN header : header[j] = k => j <= i
    IN  [k \in keys |->
            IF k \notin named THEN PyStr("surplus")
            ELSE IF last(k) <= Len(line) THEN PyStr(line[last(k)])
            ELSE PyNone]

----------------------------------------------------------------------------
\* database.py: DatabaseManager

\* The Python types sqlite3 binds to a `?` placeholder without an adapter.
SqliteBindable == {"int", "float", "str", "bytes", "NoneType"}

\* The input file f as the pathlib.Path write_database is called with, and
\* as the str of its name.
PathOf(f) == [type |-> "Path", value |-> f]

StrOf(f) == [type |-> "str", value |-> f]

\* The parameter tuple of insert_result: the first parameter is input_file_path
\* itself, as the caller passed it; records/success/errors are Counter (an
\* int subclass).
insert_parameters(input_file_path, s, t) ==
    <<input_file_path,
      [type |-> "int",   value |-> s.records],
      [type |-> "int",   value |-> s.success],
      [type |-> "int",   value |-> s.errors],
      [type |-> "float", value |-> t],
      [type |-> "str",   value |-> "timestamp"]>>

\* The row of table `results` a parameter tuple inserts.
results_row(params) ==
    [filename |-> params[1].value, records |-> params[2].value,
     success |-> params[3].value, errors |-> params[4].value,
     process_time |-> params[5].value, timestamp |-> params[6].value]

\* Variant of insert_result below that leaves a row with the file name alone
\* behind when the statement fails.
insert_result_partial(table, input_file_path, s, t, committed) ==
    LET params == insert_parameters(input_file_path, s, t)
    IN  IF \E i \in DOMAIN params : params[i].type \notin SqliteBindable
        THEN [rows |-> Append(table,
                  [results_row(params) EXCEPT !.records = 0, !.success = 0,
                       !.errors = 0, !.process_time = 0]),
              raised |-> "ProgrammingError"]
        ELSE IF ~committed THEN [rows |-> table, raised |-> "OperationalError"]
        ELSE [rows |-> Append(table, results_row(params)), raised |-> "None"]

\* DatabaseManager.insert_result: cursor.execute binds the parameters (a
\* parameter of an unsupported type raises sqlite3.ProgrammingError before
\* anything is written) and inserts the row in one statement, then commit.
\* When commit raises (committed = FALSE) the row stays in the open
\* transaction and is rolled back when the connection is closed.
insert_result(table, input_file_path, s, t, committed) ==
    LET params == insert_parameters(input_file_path, s, t)
    IN  IF \E i \in DOMAIN params : params[i].type \notin SqliteBindable
        THEN [rows |-> table, raised |-> "ProgrammingError"]
        ELSE IF ~committed THEN [rows |-> table, raised |-> "OperationalError"]
        ELSE [rows |-> Append(table, results_row(params)), raised |-> "None"]

\* Variant of _setup below that keeps the database file of the earlier run.
DatabaseManager_setup_keeping(table) == table

\* DatabaseManager._setup: the database file is unlinked if it exists and the
\* results table is created anew in the empty file.
DatabaseManager_setup(table) == <<>>

RECURSIVE SumOf(_, _)
\* SUM(column) over the rows of the table (of the non-empty table).
SumOf(table, column) ==
    IF table = <<>> THEN 0
    ELSE Head(table)[column] + SumOf(Tail(table), column)

\* cursor.fetchall() after the SELECT of get_summary: the list of result
\* rows.  An aggregate query without GROUP BY has exactly one result row;
\* SUM and AVG over no row are NULL (<<>>), a value v is <<v>>; the average
\* is kept as the fraction num/den.
fetchall(table) ==
    LET n == Len(table)
    IN  << <<n,
             IF n = 0 THEN <<>> ELSE <<SumOf(table, "records")>>,
             IF n = 0 THEN <<>> ELSE <<SumOf(table, "success")>>,
             IF n = 0 THEN <<>> ELSE <<SumOf(table, "errors")>>,
             IF n = 0 THEN <<>>
             ELSE <<[num |-> SumOf(table, "process_time"), den |-> n]>> >> >>

\* `x if x else 0` of an integer column: None and 0 both give 0.
or_zero(x) == IF x = <<>> THEN 0 ELSE x[1]

\* `x if x else 0` of the average: None and 0.0 both give 0.
average_or_zero(x) ==
    IF x = <<>> \/ x[1].num = 0 THEN [num |-> 0, den |-> 1] ELSE x[1]

\* Summary.create called with the positional arguments args at time now:
\* the classmethod takes exactly 5 arguments, any other number is a
\* TypeError of the call; generated_at is datetime.now().
Summary_create(args, now) ==
    IF Len(args) # 5
    THEN [raised |-> "TypeError", value |-> {}]
    ELSE [raised |-> "None",
          value |-> {[total_files |-> args[1],
                      total_records |-> or_zero(args[2]),
                      successful_records |-> or_zero(args[3]),
                      error_records |-> or_zero(args[4]),
                      average_process_time |-> average_or_zero(args[5]),
                      generated_at |-> now]}]

\* Summary.success_rate, as the fraction num/den.
success_rate(s) ==
    IF s.total_records = 0 THEN [num |-> 0, den |-> 1]
    ELSE [num |-> s.successful_records * 100, den |-> s.total_records]

\* DatabaseManager.get_summary: self._connection.cursor() on a closed
\* manager (connection None) is an AttributeError; otherwise
\* Summary.create(*cursor.fetchall()) passes each result row as one
\* positional argument.
get_summary(conn, table, now) ==
    IF conn = "None"
    THEN [raised |-> "AttributeError", value |-> {}]
    ELSE Summary_create(fetchall(table), now)

\* json.dump(summary, f): a dataclass instance is not JSON serializable;
\* the TypeError is raised before anything is written to the file that
\* open(report_path, "w") has truncated.
json_dump(value) == [raised |-> "TypeError", written |-> {}]

\* ReportGenerator.generate: get_summary, then json.dump into the report.
generate(conn, table, now, old_report) ==
    LET r == get_summary(conn, table, now)
    IN  IF r.raised # "None"
        THEN [summary |-> r, raised |-> r.raised, report |-> old_report]
        ELSE LET d == json_dump(r.value)
             IN  [summary |-> r, raised |-> d.raised, report |-> d.written]

\* Variant of __exit__ below that returns True.
DatabaseManager_exit_suppressing(e) == TRUE

\* DatabaseManager.__exit__ returns None: the exception of the `with` body
\* is not suppressed.
DatabaseManager_exit_suppresses(e) == FALSE

----------------------------------------------------------------------------
\* workflow.py

\* Variant of process_data_stats below: one Stats object kept for all files.
process_data_stats_shared(previous) == previous

\* process_data, `stats = Stats()`: every call creates its own Stats,
\* whatever the Stats of the previous call holds.
process_data_stats(previous) == Stats

----------------------------------------------------------------------------
\* main.py

\* Variant of no_input_files below: an empty list is not noticed.
no_input_files_ignored(n) == FALSE

\* Application._process_data, `if not input_files`: the list of n files is
\* empty.
no_input_files(n) == n = 0

----------------------------------------------------------------------------
\* file_manager.py

\* Variant of open_csv_file_exit below that leaves the files open when an
\* exception leaves the block.
open_csv_file_exit_leaking(e) == e # "None"

\* CsvHandler.open_csv_file, `with open(...) as infile, open(...) as
\* outfile`: whether the files are still open once the block has been left
\* with exception e ("None": normally).  The `with` closes both either way.
open_csv_file_exit(e) == FALSE

\* Path.rename: the file leaves the source directory and appears in the
\* destination directory.
rename(f, source, destination) ==
    [source |-> source \ {f}, destination |-> destination \cup {f}]

----------------------------------------------------------------------------
\* refactoring_code_2.py: RetryDataFetcher

\* fetch_data constructs RetryDataFetcher(total=10, wait_time=1,
\* retry_status=[429]).
FetchDataTotal == 10

FetchDataWaitTime == 1

FetchDataRetryStatus == 429

\* The status codes a response carries in the model.
StatusCodes == {200, FetchDataRetryStatus, 503}

\* Variant of backoff below: the wait stays the same.
backoff_constant(w) == w

\* start, `self._wait_time *= 2`.
backoff(w) == w * 2

\* start, `for _ in range(self._total)`: after i iterations the range is
\* exhausted.
loop_exhausted(i, total) == i >= total

\* No record is on its way.
RecordUnused ==
    /\ fieldnames = <<>>
    /\ cells = <<>>
    /\ row = <<>>
    /\ processed = [raised |-> "None", analysis_result |-> PyNone]

\* No RetryDataFetcher exists.
RetryUnused ==
    /\ retry_config = [total |-> 0, wait_time |-> 0, retry_status |-> {}]
    /\ status_code = 0
    /\ wait_time = 0
    /\ attempt = 0
    /\ waits = <<>>
    /\ printed = {}

----------------------------------------------------------------------------
\* The run

NumFiles == Cardinality(Files)

Init ==
    /\ input_files \in UNION {[1..k -> 0..MaxRecords] : k \in 0..MaxFiles}
    /\ input_dir = DOMAIN input_files
    /\ archive_dir = {}
    /\ error_dir = {}
    /\ output_files = <<>>
    /\ pc = "list_input_files"
    /\ idx = 0
    /\ streams_open = FALSE
    /\ pos = 0
    /\ stats = Stats
    /\ exc = "None"
    /\ connection = "None"
    /\ db_exc = "None"
    /\ rows = <<>>
    /\ process_time = 0
    /\ run_error = "None"
    /\ process_calls = [f \in DOMAIN input_files |-> 0]
    /\ exceeded = {}
    /\ recorder_errors = 0
    /\ returned_stats = <<>>
    /\ listeners = <<>>
    /\ notified = [subscribed |-> <<>>, raised |-> "None", called |-> <<>>]
    /\ summary = <<>>
    /\ report = {}
    /\ discarded = 0
    /\ RecordUnused
    /\ RetryUnused

\* Application._process_data, up to the loop: list the input files; with no
\* file the bare `raise` (no active exception) raises RuntimeError.
ListInputFiles ==
    /\ pc = "list_input_files"
    /\ IF no_input_files(NumFiles)
       THEN /\ run_error' = "RuntimeError"
            /\ pc' = "crashed"
            /\ idx' = idx
       ELSE /\ idx' = 1
            /\ pc' = "process_data"
            /\ run_error' = run_error
    /\ UNCHANGED <<returned_stats, client_vars>>
    /\ UNCHANGED <<input_files, input_dir, archive_dir, error_dir, output_files,
                   streams_open, pos, stats, exc, connection, db_exc, rows,
                   process_time, process_calls, exceeded, recorder_errors>>

\* ProcessDataWorkflow.process_data up to the record loop: fresh Stats, then
\* CsvHandler.open_csv_file opens the input and (truncating) the output and
\* writes the header.  An exception of open or writeheader is logged and
\* re-raised into the except branch of process_data.
OpenCsvFile ==
    /\ pc = "process_data"
    /\ stats' = process_data_stats(stats)
    /\ pos' = 0
    /\ \E outcome \in {"ok", "open_failed", "header_failed"} :
         /\ output_files' =
              IF outcome = "open_failed" THEN output_files
              ELSE [f \in DOMAIN output_files \cup {idx} |->
                        IF f = idx THEN 0 ELSE output_files[f]]
         /\ streams_open' =
              IF outcome = "ok" THEN TRUE ELSE open_csv_file_exit("OSError")
         /\ exc' = IF outcome = "ok" THEN "None" ELSE "OSError"
         /\ pc' = IF outcome = "ok" THEN "reading" ELSE "except"
    /\ UNCHANGED <<returned_stats, client_vars>>
    /\ UNCHANGED <<input_files, idx, input_dir, archive_dir, error_dir,
                   connection, db_exc, rows, process_time, run_error,
                   process_calls, exceeded, recorder_errors>>

\* `for row in reader` and the entry of process_data_event_context: the
\* reader fails, or hands over the next row and before-record is notified,
\* or is exhausted and the `with open_csv_file` block ends.
NextRow ==
    /\ pc = "reading"
    /\ \E read_failed \in BOOLEAN :
         IF read_failed
         THEN /\ exc' = "OSError"
              /\ streams_open' = open_csv_file_exit("OSError")
              /\ pc' = "except"
              /\ UNCHANGED <<pos, stats>>
         ELSE IF pos < input_files[idx]
         THEN LET r == process_data_event_context_enter(stats)
              IN  /\ pos' = pos + 1
                  /\ stats' = r.stats
                  /\ exc' = r.raised
                  /\ streams_open' =
                       IF r.raised = "None" THEN TRUE
                       ELSE open_csv_file_exit(r.raised)
                  /\ pc' = IF r.raised = "None" THEN "in_context" ELSE "except"
         ELSE /\ streams_open' = open_csv_file_exit("None")
              /\ pc' = "move_to_archive"
              /\ UNCHANGED <<pos, stats, exc>>
    /\ UNCHANGED <<returned_stats, client_vars>>
    /\ UNCHANGED <<input_files, idx, input_dir, archive_dir, error_dir,
                   output_files, connection, db_exc, rows, process_time,
                   run_error, process_calls, exceeded, recorder_errors>>

\* The body of `with process_data_event_context(stats)`: InputData(**row)
\* (TypeError on a row whose keys are not exactly the three fields),
\* DataProcessor.process (ValueError with probability 5%), writer.writerow
\* (OSError).  The row is written only when nothing was raised.
ProcessBody ==
    /\ pc = "in_context"
    /\ \E raised \in {"None", "TypeError", "ValueError", "OSError"} :
         /\ process_calls' =
              IF raised = "TypeError" THEN process_calls
              ELSE [process_calls EXCEPT ![idx] = @ + 1]
         /\ output_files' =
              IF raised = "None" THEN [output_files EXCEPT ![idx] = @ + 1]
              ELSE output_files
         /\ exc' = raised
    /\ pc' = "exit_context"
    /\ UNCHANGED <<returned_stats, client_vars>>
    /\ UNCHANGED <<input_files, idx, input_dir, archive_dir, error_dir,
                   streams_open, pos, stats, connection, db_exc, rows,
                   process_time, run_error, exceeded, recorder_errors>>

\* The exit of process_data_event_context: after-record when the body ended
\* normally, on-error and the re-raise when it raised.  An exception leaves
\* the loop and the `with open_csv_file` block, which closes the streams.
ExitContext ==
    /\ pc = "exit_context"
    /\ LET r == process_data_event_context_exit(stats, exc)
       IN  /\ stats' = r.stats
           /\ exc' = r.raised
           /\ streams_open' =
                IF r.raised = "None" THEN TRUE
                ELSE open_csv_file_exit(r.raised)
           /\ pc' = IF r.raised = "None" THEN "reading" ELSE "except"
           /\ exceeded' =
                IF exc # "None" /\ r.stats.errors * 5 > r.stats.records
                THEN exceeded \cup {idx} ELSE exceeded
    /\ UNCHANGED <<returned_stats, client_vars>>
    /\ UNCHANGED <<input_files, idx, input_dir, archive_dir, error_dir,
                   output_files, pos, connection, db_exc, rows, process_time,
                   run_error, process_calls, recorder_errors>>

\* FileManager.move_to_archive, the last statement of the try block; when
\* rename raises, the except branch runs.  On success process_data returns
\* and the Timer gives the process time.
MoveToArchive ==
    /\ pc = "move_to_archive"
    /\ \E renamed \in BOOLEAN, t \in 0..MaxProcessTime :
         IF renamed
         THEN LET m == rename(idx, input_dir, archive_dir)
              IN  /\ input_dir' = m.source
                  /\ archive_dir' = m.destination
                  /\ process_time' = t
                  /\ pc' = "write_database"
                  /\ exc' = exc
                  /\ returned_stats' = Append(returned_stats, stats)
         ELSE /\ exc' = "OSError"
              /\ pc' = "except"
              /\ UNCHANGED <<input_dir, archive_dir, process_time, returned_stats>>
    /\ UNCHANGED client_vars
    /\ UNCHANGED <<input_files, idx, error_dir, output_files, streams_open, pos,
                   stats, connection, db_exc, rows, run_error, process_calls,
                   exceeded, recorder_errors>>

\* `except Exception as e` of process_data: FileManager.move_to_error, then
\* the error is logged and process_data returns.  When rename raises, the
\* exception leaves process_data, _process_data and run.
MoveToError ==
    /\ pc = "except"
    /\ \E renamed \in BOOLEAN, t \in 0..MaxProcessTime :
         IF renamed
         THEN LET m == rename(idx, input_dir, error_dir)
              IN  /\ input_dir' = m.source
                  /\ error_dir' = m.destination
                  /\ process_time' = t
                  /\ pc' = "write_database"
                  /\ run_error' = run_error
                  /\ returned_stats' = Append(returned_stats, stats)
         ELSE /\ run_error' = "OSError"
              /\ pc' = "crashed"
              /\ UNCHANGED <<input_dir, error_dir, process_time, returned_stats>>
    /\ UNCHANGED client_vars
    /\ UNCHANGED <<input_files, idx, archive_dir, output_files, streams_open,
                   pos, stats, exc, connection, db_exc, rows, process_calls,
                   exceeded, recorder_errors>>

\* ProcessDataWorkflow.write_database, `with self._db_manger`:
\* DatabaseManager.__enter__ connects.
DbEnter ==
    /\ pc = "write_database"
    /\ connection' = "open"
    /\ db_exc' = "None"
    /\ pc' = "insert_result"
    /\ UNCHANGED <<returned_stats, client_vars>>
    /\ UNCHANGED <<input_files, idx, input_dir, archive_dir, error_dir,
                   output_files, streams_open, pos, stats, exc, rows,
                   process_time, run_error, process_calls, exceeded,
                   recorder_errors>>

\* The body of the `with`: DatabaseManager.insert_result.
InsertResult ==
    /\ pc = "insert_result"
    /\ \E committed \in BOOLEAN :
       LET r == insert_result(rows, PathOf(idx), stats, process_time, committed)
       IN  /\ rows' = r.rows
           /\ db_exc' = r.raised
           /\ recorder_errors' =
                IF r.raised = "None" THEN recorder_errors ELSE recorder_errors + 1
    /\ pc' = "db_exit"
    /\ UNCHANGED <<returned_stats, client_vars>>
    /\ UNCHANGED <<input_files, idx, input_dir, archive_dir, error_dir,
                   output_files, streams_open, pos, stats, exc, connection,
                   process_time, run_error, process_calls, exceeded>>

\* DatabaseManager.__exit__ closes the connection.  An exception of the body
\* leaves write_database, _process_data and run; otherwise the loop of
\* _process_data goes on to the next file or ends, and run goes on to
\* _generate_report.
DbExit ==
    /\ pc = "db_exit"
    /\ connection' = "None"
    /\ IF db_exc # "None" /\ ~DatabaseManager_exit_suppresses(db_exc)
       THEN /\ run_error' = db_exc
            /\ pc' = "crashed"
            /\ idx' = idx
       ELSE /\ run_error' = run_error
            /\ pc' = IF idx < NumFiles THEN "process_data" ELSE "generate_report"
            /\ idx' = IF idx < NumFiles THEN idx + 1 ELSE idx
    /\ UNCHANGED <<returned_stats, client_vars>>
    /\ UNCHANGED <<input_files, input_dir, archive_dir, error_dir, output_files,
                   streams_open, pos, stats, exc, db_exc, rows, process_time,
                   process_calls, exceeded, recorder_errors>>

Next ==
    \/ ListInputFiles
    \/ OpenCsvFile
    \/ NextRow
    \/ ProcessBody
    \/ ExitContext
    \/ MoveToArchive
    \/ MoveToError
    \/ DbEnter
    \/ InsertResult
    \/ DbExit

Spec == Init /\ [][Next]_vars

----------------------------------------------------------------------------
\* Properties

\* process_data has returned for file idx (the loop is at write_database).
Returned == pc \in {"write_database", "insert_result", "db_exit"}

\* The exceptions of the transform of one record.
TransformErrors == {"ValueError", "TypeError"}

\* Number of rows of the table for file f.
RowsFor(f) == Cardinality({i \in DOMAIN rows : rows[i].filename = f})

\* The insert_result call for file f has ended (returned or raised).
InsertEnded(f) ==
    \/ f < idx
    \/ f = idx /\ pc \in {"db_exit", "generate_report"}
    \/ f = idx /\ pc = "crashed" /\ f \in archive_dir \cup error_dir

\* C1: when process_data has returned for a file, the file is in exactly one
\* of the archive and the error directory and not in the input directory,
\* and it is in the archive iff every record was read, no abort signal
\* (RuntimeError of the threshold) was raised and no I/O call failed.
C1_ArchivedIffCompleted ==
    Returned =>
        /\ idx \notin input_dir
        /\ (idx \in archive_dir) # (idx \in error_dir)
        /\ (idx \in archive_dir) <=>
              (pos = input_files[idx] /\ exc \notin {"RuntimeError", "OSError"})

\* C2: in every state the counters of the file satisfy errors <= records and
\* success + errors <= records.
C2_CountersBounded ==
    /\ stats.errors <= stats.records
    /\ stats.success + stats.errors <= stats.records

\* C2 witness: process_data has returned with successes and an error counted.
C2_Witness ==
    Returned /\ stats.success >= 1 /\ stats.errors >= 1

\* C3: once the error rate of a file was above 0.2 after an on-error
\* notification, DataProcessor.process is not invoked again for that file.
C3_NoTransformAfterThreshold ==
    [][\A f \in exceeded : process_calls'[f] = process_calls[f]]_vars

\* C3 witness: a file that exceeded the threshold while rows were left unread
\* has been routed.
C3_Witness ==
    Returned /\ idx \in exceeded /\ pos < input_files[idx]

\* C4: a failure of DataProcessor.process that leaves the error rate at or
\* below 0.2 does not end the record loop: the loop is left with the
\* exception of the transform only when the rate is above 0.2.
C4_FailureBelowThresholdContinues ==
    (pc = "except" /\ exc = "ValueError") => stats.errors * 5 > stats.records

\* C5: no file-level I/O error (open, read, write, move) leaves process_data
\* and ends the run, and a file that had one is in the error directory once
\* process_data has returned.
C5_FileErrorStaysInFile ==
    /\ run_error # "OSError"
    /\ (Returned /\ exc = "OSError") => idx \in error_dir

\* C6: every file has at most one row, a row only after it was routed, and
\* exactly one row once its insert_result call has ended, archived or
\* quarantined alike.
C6_OneRowPerRoutedFile ==
    \A f \in Files :
        /\ RowsFor(f) <= 1
        /\ RowsFor(f) = 1 => f \in archive_dir \cup error_dir
        /\ InsertEnded(f) => RowsFor(f) = 1

\* C7: the table holds as many rows as files have been processed and
\* recorded.
C7_RowCountIsFileCount ==
    Len(rows) = Cardinality({f \in Files : InsertEnded(f)})

\* C8: a file in the error directory has no output file left.
C8_NoOutputAfterQuarantine ==
    \A f \in error_dir : f \notin DOMAIN output_files

C10_RecorderErrorStopsRun ==
    recorder_errors > 0 =>
        \/ pc = "db_exit" /\ db_exc # "None"
        \/ pc = "crashed" /\ run_error = "ProgrammingError"

\* C10 witness: the run has ended on the failed insert of the first file,
\* with a later file still in the input directory.
C10_Witness ==
    /\ pc = "crashed" /\ recorder_errors = 1 /\ run_error = "ProgrammingError"
    /\ idx < NumFiles /\ input_dir # {}

----------------------------------------------------------------------------
\* DatabaseManager and ReportGenerator driven by their callers: the manager
\* is constructed over the database file an earlier run left, then used as
\* write_database and _generate_report use it.

\* The variables of process_data, which the recorder does not touch.
workflow_vars ==
    <<input_files, idx, input_dir, archive_dir, error_dir, output_files,
      streams_open, pos, stats, exc, process_time, process_calls, exceeded,
      recorder_errors, returned_stats, listeners, notified, retry_vars,
      record_vars>>

\* The rows an earlier run can have left in the results table.
PriorRows ==
    {[filename |-> f, records |-> r, success |-> k, errors |-> r - k,
      process_time |-> t, timestamp |-> "timestamp"] :
        f \in 1..MaxFiles, r \in 0..1, k \in 0..1, t \in {0, MaxProcessTime}}

PriorTables ==
    UNION {[1..n -> {prior \in PriorRows : prior.success <= prior.records}] :
             n \in 0..MaxPriorRows}

RecorderInit ==
    /\ rows \in PriorTables
    /\ pc = "start"
    /\ connection = "None"
    /\ db_exc = "None"
    /\ run_error = "None"
    /\ summary = <<>>
    /\ report = {}
    /\ discarded = 0
    /\ RecordUnused
    /\ RetryUnused
    /\ input_files = <<>>
    /\ input_dir = {}
    /\ archive_dir = {}
    /\ error_dir = {}
    /\ output_files = <<>>
    /\ idx = 0
    /\ streams_open = FALSE
    /\ pos = 0
    /\ stats = Stats
    /\ exc = "None"
    /\ process_time = 0
    /\ process_calls = <<>>
    /\ exceeded = {}
    /\ recorder_errors = 0
    /\ returned_stats = <<>>
    /\ listeners = <<>>
    /\ notified = [subscribed |-> <<>>, raised |-> "None", called |-> <<>>]

\* DatabaseManager(Path(DB_FILE)): __init__ runs _setup and leaves the
\* connection closed.  discarded counts the rows the file held.
RecorderConstruct ==
    /\ connection = "None"
    /\ rows' = DatabaseManager_setup(rows)
    /\ discarded' = Len(rows)
    /\ connection' = "None"
    /\ summary' = <<>>
    /\ pc' = "constructed"
    /\ UNCHANGED <<db_exc, run_error, report, workflow_vars>>

\* `with db_manager:` __enter__ connects to the existing file.
RecorderEnter ==
    /\ pc # "start"
    /\ connection = "None"
    /\ connection' = "open"
    /\ pc' = "entered"
    /\ UNCHANGED <<rows, db_exc, run_error, summary, report, discarded,
                   workflow_vars>>

\* insert_result(input_file, stats, process_time) inside the `with`: called
\* with the Path, as write_database does, or with the name of the file.
RecorderInsert ==
    /\ connection = "open"
    /\ Len(rows) < MaxPriorRows
    /\ \E f \in 1..MaxFiles, t \in {MaxProcessTime}, committed \in BOOLEAN :
         \E s \in {increment_records(Stats), Stats} :
            \E input_file_path \in {PathOf(f), StrOf(f)} :
               LET r == insert_result(rows, input_file_path, s, t, committed)
               IN  /\ rows' = r.rows
                   /\ db_exc' = r.raised
    /\ summary' = <<>>
    /\ pc' = "inserted"
    /\ UNCHANGED <<connection, run_error, report, discarded, workflow_vars>>

\* __exit__ closes the connection.
RecorderExit ==
    /\ connection = "open"
    /\ connection' = "None"
    /\ pc' = "exited"
    /\ UNCHANGED <<rows, db_exc, run_error, summary, report, discarded,
                   workflow_vars>>

\* db_manager.get_summary() called by a client; summary is the list of the
\* outcomes of the calls made since the last insert.
RecorderGetSummary ==
    /\ pc # "start"
    /\ Len(summary) < MaxSummaryCalls
    /\ \E now \in 0..MaxClock :
         summary' = Append(summary, get_summary(connection, rows, now))
    /\ pc' = "summarized"
    /\ UNCHANGED <<rows, connection, db_exc, run_error, report, discarded,
                   workflow_vars>>

\* ReportGenerator(config, db_manger).generate(report_path); its exception
\* leaves _generate_report and run.
RecorderGenerate ==
    /\ pc # "start"
    /\ Len(summary) < MaxSummaryCalls
    /\ \E now \in 0..MaxClock :
         LET g == generate(connection, rows, now, report)
         IN  /\ summary' = Append(summary, g.summary)
             /\ report' = g.report
             /\ run_error' = g.raised
    /\ pc' = "generated"
    /\ UNCHANGED <<rows, connection, db_exc, discarded, workflow_vars>>

RecorderNext ==
    \/ RecorderConstruct
    \/ RecorderEnter
    \/ RecorderInsert
    \/ RecorderExit
    \/ RecorderGetSummary
    \/ RecorderGenerate

SpecRecorder == RecorderInit /\ [][RecorderNext]_vars

----------------------------------------------------------------------------
\* A BaseDispatcher driven by a client: listeners are subscribed, and notify
\* is called with the Stats of the context as payload.

Listeners ==
    {"on_before_process_listener", "on_after_process_listener",
     "on_error_process_listener"}

DispatcherInit ==
    /\ listeners = <<>>
    /\ notified = [subscribed |-> <<>>, raised |-> "None", called |-> <<>>]
    /\ stats = Stats
    /\ pc = "dispatcher"
    /\ rows = <<>>
    /\ connection = "None"
    /\ db_exc = "None"
    /\ run_error = "None"
    /\ summary = <<>>
    /\ report = {}
    /\ discarded = 0
    /\ RecordUnused
    /\ RetryUnused
    /\ input_files = <<>>
    /\ input_dir = {}
    /\ archive_dir = {}
    /\ error_dir = {}
    /\ output_files = <<>>
    /\ idx = 0
    /\ streams_open = FALSE
    /\ pos = 0
    /\ exc = "None"
    /\ process_time = 0
    /\ process_calls = <<>>
    /\ exceeded = {}
    /\ recorder_errors = 0
    /\ returned_stats = <<>>

\* The variables a dispatcher does not touch.
dispatcher_frame ==
    <<pc, rows, connection, db_exc, run_error, summary, report, discarded,
      input_files, input_dir, archive_dir, error_dir, output_files, idx,
      streams_open, pos, exc, process_time, process_calls, exceeded,
      recorder_errors, returned_stats, retry_vars, record_vars>>

\* BaseDispatcher.subscribe: the listener is appended to the list.
DispatcherSubscribe ==
    /\ Len(listeners) < MaxListeners
    /\ \E listener \in Listeners : listeners' = Append(listeners, listener)
    /\ UNCHANGED <<notified, stats, dispatcher_frame>>

\* BaseDispatcher.notify(payload) with the Stats as payload; notified keeps
\* the list notify went through, the calls it made and what it raised.
DispatcherNotify ==
    /\ LET r == notify(listeners, stats)
       IN  /\ r.stats.records <= MaxRecords
           /\ r.stats.success <= MaxRecords
           /\ r.stats.errors <= MaxRecords
           /\ stats' = r.stats
           /\ notified' = [subscribed |-> listeners, raised |-> r.raised,
                           called |-> r.called]
    /\ UNCHANGED <<listeners, dispatcher_frame>>

DispatcherNext ==
    \/ DispatcherSubscribe
    \/ DispatcherNotify

SpecDispatcher == DispatcherInit /\ [][DispatcherNext]_vars

----------------------------------------------------------------------------
\* ProcessDataWorkflow.process_data called for every file of the batch in
\* turn, by a caller that does not record the results.

WorkflowInit ==
    /\ input_files \in
         UNION {[1..k -> 0..MaxWorkflowRecords] : k \in 0..MaxWorkflowFiles}
    /\ input_dir = DOMAIN input_files
    /\ archive_dir = {}
    /\ error_dir = {}
    /\ output_files = <<>>
    /\ pc = "list_input_files"
    /\ idx = 0
    /\ streams_open = FALSE
    /\ pos = 0
    /\ stats = Stats
    /\ exc = "None"
    /\ connection = "None"
    /\ db_exc = "None"
    /\ rows = <<>>
    /\ process_time = 0
    /\ run_error = "None"
    /\ process_calls = [f \in DOMAIN input_files |-> 0]
    /\ exceeded = {}
    /\ recorder_errors = 0
    /\ returned_stats = <<>>
    /\ listeners = <<>>
    /\ notified = [subscribed |-> <<>>, raised |-> "None", called |-> <<>>]
    /\ summary = <<>>
    /\ report = {}
    /\ discarded = 0
    /\ RecordUnused
    /\ RetryUnused

\* The caller takes the Stats process_data returned and calls process_data
\* for the next file of the list.
WorkflowNextFile ==
    /\ pc = "write_database"
    /\ idx < NumFiles
    /\ idx' = idx + 1
    /\ pc' = "process_data"
    /\ UNCHANGED <<returned_stats, client_vars>>
    /\ UNCHANGED <<input_files, input_dir, archive_dir, error_dir, output_files,
                   streams_open, pos, stats, exc, connection, db_exc, rows,
                   process_time, run_error, process_calls, exceeded,
                   recorder_errors>>

WorkflowNext ==
    \/ ListInputFiles
    \/ OpenCsvFile
    \/ NextRow
    \/ ProcessBody
    \/ ExitContext
    \/ MoveToArchive
    \/ MoveToError
    \/ WorkflowNextFile

SpecWorkflow == WorkflowInit /\ [][WorkflowNext]_vars

----------------------------------------------------------------------------
\* RetryDataFetcher.start, on a fetcher whose first response is in: the
\* configuration of fetch_data and other small ones.

RetryConfigs ==
    {[total |-> t, wait_time |-> w, retry_status |-> r] :
        t \in (0..MaxTotal) \cup {FetchDataTotal},
        w \in {FetchDataWaitTime, MaxWaitTime},
        r \in {{FetchDataRetryStatus}, {FetchDataRetryStatus, 503}}}

RetryInit ==
    /\ retry_config \in RetryConfigs
    /\ status_code \in StatusCodes
    /\ wait_time = retry_config.wait_time
    /\ attempt = 0
    /\ waits = <<>>
    /\ printed = {}
    /\ pc = "retry_check"
    /\ listeners = <<>>
    /\ notified = [subscribed |-> <<>>, raised |-> "None", called |-> <<>>]
    /\ stats = Stats
    /\ rows = <<>>
    /\ connection = "None"
    /\ db_exc = "None"
    /\ run_error = "None"
    /\ summary = <<>>
    /\ report = {}
    /\ discarded = 0
    /\ RecordUnused
    /\ input_files = <<>>
    /\ input_dir = {}
    /\ archive_dir = {}
    /\ error_dir = {}
    /\ output_files = <<>>
    /\ idx = 0
    /\ streams_open = FALSE
    /\ pos = 0
    /\ exc = "None"
    /\ process_time = 0
    /\ process_calls = <<>>
    /\ exceeded = {}
    /\ recorder_errors = 0
    /\ returned_stats = <<>>

\* The variables RetryDataFetcher does not touch.
retry_frame ==
    <<listeners, notified, stats, rows, connection, db_exc, summary, report,
      discarded, input_files, input_dir, archive_dir, error_dir, output_files,
      idx, streams_open, pos, exc, process_time, process_calls, exceeded,
      recorder_errors, returned_stats, retry_config, record_vars>>

\* The head of the for loop and the status test: the exhausted range runs
\* the else clause of the loop (the failure message); a status that is not
\* in retry_status breaks out of the loop, skipping the else clause;
\* otherwise the rate-limit message is printed.
RetryCheck ==
    /\ pc = "retry_check"
    /\ IF loop_exhausted(attempt, retry_config.total)
       THEN /\ printed' = printed \cup {"Failed to fetch data"}
            /\ pc' = "retry_done"
       ELSE IF status_code \notin retry_config.retry_status
       THEN /\ printed' = printed
            /\ pc' = "retry_done"
       ELSE /\ printed' = printed \cup {"Hit rate limit. Waiting..."}
            /\ pc' = "retry_sleep"
    /\ UNCHANGED <<status_code, wait_time, attempt, waits, run_error,
                   retry_frame>>

\* `await asyncio.sleep(self._wait_time)`, then the wait is doubled.
RetrySleep ==
    /\ pc = "retry_sleep"
    /\ waits' = Append(waits, wait_time)
    /\ wait_time' = backoff(wait_time)
    /\ pc' = "retry_get"
    /\ UNCHANGED <<status_code, attempt, printed, run_error, retry_frame>>

\* `self._fetcher.retry()`: requests.get returns a response, or raises and
\* the exception leaves start.
RetryGet ==
    /\ pc = "retry_get"
    /\ attempt' = attempt + 1
    /\ \/ /\ status_code' \in StatusCodes
          /\ pc' = "retry_check"
          /\ run_error' = run_error
       \/ /\ status_code' = status_code
          /\ pc' = "retry_raised"
          /\ run_error' = "ConnectionError"
    /\ UNCHANGED <<wait_time, waits, printed, retry_frame>>

RetryNext ==
    \/ RetryCheck
    \/ RetrySleep
    \/ RetryGet

SpecRetry == RetryInit /\ [][RetryNext]_vars

\* asyncio runs the coroutine to its end: a step that is enabled is taken.
SpecRetryFair == SpecRetry /\ WF_vars(RetryNext)

----------------------------------------------------------------------------
\* One record through the body of the loop of process_data: a line of the
\* input file read by csv.DictReader, or an InputData a caller of
\* DataProcessor builds from floats.

Headers ==
    {<<"value1", "value2", "category">>, <<"category", "value1", "value2">>,
     <<"value1", "value2">>, <<"value1", "value2", "category", "note">>}

CellTexts == {"2", "4", "a", "b", "c", "z"}

\* cells = <<>>: no line is read (the reader skips a blank line), the
\* record comes from a caller of DataProcessor.
RecordInit ==
    /\ fieldnames \in Headers
    /\ cells \in UNION {[1..n -> CellTexts] : n \in 0..MaxCells}
    /\ cells = <<>> => fieldnames = <<"value1", "value2", "category">>
    /\ row = <<>>
    /\ processed = [raised |-> "None", analysis_result |-> PyNone]
    /\ pc = "record_read"
    /\ RetryUnused
    /\ listeners = <<>>
    /\ notified = [subscribed |-> <<>>, raised |-> "None", called |-> <<>>]
    /\ stats = Stats
    /\ rows = <<>>
    /\ connection = "None"
    /\ db_exc = "None"
    /\ run_error = "None"
    /\ summary = <<>>
    /\ report = {}
    /\ discarded = 0
    /\ input_files = <<>>
    /\ input_dir = {}
    /\ archive_dir = {}
    /\ error_dir = {}
    /\ output_files = <<>>
    /\ idx = 0
    /\ streams_open = FALSE
    /\ pos = 0
    /\ exc = "None"
    /\ process_time = 0
    /\ process_calls = <<>>
    /\ exceeded = {}
    /\ recorder_errors = 0
    /\ returned_stats = <<>>

\* The variables the body of the loop does not touch.
record_frame ==
    <<listeners, notified, stats, rows, connection, db_exc, run_error, summary,
      report, discarded, input_files, input_dir, archive_dir, error_dir,
      output_files, idx, streams_open, pos, exc, process_time, process_calls,
      exceeded, recorder_errors, returned_stats, retry_vars>>

\* `for row in reader`: DictReader builds the dict of the line.
RecordRead ==
    /\ pc = "record_read"
    /\ cells # <<>>
    /\ row' = DictReader_row(fieldnames, cells)
    /\ pc' = "record_body"
    /\ UNCHANGED <<fieldnames, cells, processed, record_frame>>

\* The body of the `with`: InputData(**row) and processor.process(data).
RecordProcess ==
    /\ pc = "record_body"
    /\ \E random_error \in BOOLEAN :
         processed' = process_row(row, random_error)
    /\ pc' = "record_done"
    /\ UNCHANGED <<fieldnames, cells, row, record_frame>>

\* A caller builds InputData from floats, as its annotations say, and calls
\* DataProcessor.process.
RecordProcessFloats ==
    /\ pc = "record_read"
    /\ cells = <<>>
    /\ \E v1, v2 \in {PyFloat(200), PyFloat(400)}, c \in CellTexts :
         \E random_error \in BOOLEAN :
            /\ row' = [value1 |-> v1, value2 |-> v2, category |-> PyStr(c)]
            /\ processed' = process_row(row', random_error)
    /\ pc' = "record_done"
    /\ UNCHANGED <<fieldnames, cells, record_frame>>

RecordNext ==
    \/ RecordRead
    \/ RecordProcess
    \/ RecordProcessFloats

SpecRecord == RecordInit /\ [][RecordNext]_vars

\* No step of the run is enabled: Application.run has ended.
Terminated == ~ENABLED Next

\* C12: a run on a non-empty batch whose last processed file had no failure
\* ends only with every file routed and recorded and the summary emitted.
C12_RunEndsWithBatchRecorded ==
    (NumFiles > 0 /\ Terminated /\ exc = "None") =>
        /\ \A f \in Files : f \in archive_dir \cup error_dir /\ RowsFor(f) = 1
        /\ report # {}

\* The first record of the file of 5 rows being processed failed:
\* process_data has returned with an error counted and no success.
FirstRecordFailed ==
    Returned /\ input_files[idx] = 5 /\ stats.success = 0 /\ stats.errors >= 1

\* C14 as stated: the file of 5 rows whose first records fail is aborted
\* after record 2, with stats {records: 2, success: 0, errors: 2}.
C14_AbortAfterSecondFailure ==
    FirstRecordFailed =>
        /\ stats = [records |-> 2, success |-> 0, errors |-> 2]
        /\ pos = 2
        /\ idx \in error_dir

\* C14 amended: the file of 5 rows whose first records fail is aborted after
\* record 1 (1/1 > 0.2), with stats {records: 1, success: 0, errors: 1}; it
\* is quarantined and records 2 to 5 are never attempted.
C14_AbortAfterFirstFailure ==
    FirstRecordFailed =>
        /\ stats = [records |-> 1, success |-> 0, errors |-> 1]
        /\ exc = "RuntimeError"
        /\ pos = 1
        /\ process_calls[idx] <= 1
        /\ idx \in error_dir /\ idx \notin archive_dir

\* C14 witness: the file of 5 rows is quarantined after its first record.
C14_Witness ==
    /\ FirstRecordFailed /\ idx \in error_dir
    /\ stats.records = 1 /\ process_calls[idx] = 1

\* C15: a file of n rows with no failure ends with stats {n, n, 0} in the
\* archive, and once its insert_result call has ended the table holds
\* exactly one row for it, with {records: n, success: n, errors: 0}.
C15_CleanFileArchivedAndRecorded ==
    (idx \in Files /\ exc = "None" /\ InsertEnded(idx)) =>
        LET n == input_files[idx]
        IN  /\ stats = [records |-> n, success |-> n, errors |-> 0]
            /\ idx \in archive_dir
            /\ RowsFor(idx) = 1
            /\ \A i \in DOMAIN rows :
                 rows[i].filename = idx =>
                    /\ rows[i].records = n
                    /\ rows[i].success = n
                    /\ rows[i].errors = 0

\* The loop of process_data is between two records, or over.
RecordBoundary ==
    pc \in {"reading", "move_to_archive", "except"} \/ Returned

\* C18: at every record boundary the output file of the current file holds
\* as many data rows as records succeeded; records counted as errors added
\* none.
C18_OutputRowsAreSuccesses ==
    (RecordBoundary /\ idx \in DOMAIN output_files) =>
        /\ output_files[idx] = stats.success
        /\ output_files[idx] + stats.errors <= stats.records

\* C18 witness: a record failed after two rows were written.
C18_Witness ==
    /\ pc = "except" /\ stats.errors = 1 /\ stats.success = 2
    /\ idx \in DOMAIN output_files /\ output_files[idx] = 2

\* C11: once generate has been called on the manager the batch loop has
\* left (constructed, connection closed by the last write_database), the
\* summary has been produced: no exception, and the report is written.
C11_ReportAfterLoop ==
    (pc = "generated" /\ connection = "None") =>
        /\ run_error = "None"
        /\ report # {}

\* The table before the step is a prefix of the table after it.
RowsKept == Len(rows) <= Len(rows') /\ SubSeq(rows', 1, Len(rows)) = rows

\* C13: the construction of the DatabaseManager leaves zero rows whatever
\* the table held, and no other step of the recorder removes a row.
C13_StoreResetOnlyAtConstruction ==
    [][/\ pc' = "constructed" => rows' = <<>>
       /\ pc' # "constructed" => RowsKept]_vars

\* C13 witness: the manager has been constructed over a file that held rows,
\* and has since been entered with the table still empty of them.
C13_Witness ==
    pc = "entered" /\ discarded > 0 /\ rows = <<>>

\* C19: get_summary on a usable, empty store yields a Summary with
\* total_files = 0 and every sum, the average and the success rate 0.
C19_EmptyStoreSummaryIsZero ==
    (pc = "summarized" /\ connection = "open" /\ rows = <<>>) =>
        LET last == summary[Len(summary)]
        IN  /\ last.raised = "None"
            /\ last.value # {}
            /\ \A v \in last.value :
                 /\ v.total_files = 0
                 /\ v.total_records = 0
                 /\ v.successful_records = 0
                 /\ v.error_records = 0
                 /\ v.average_process_time.num = 0
                 /\ success_rate(v).num = 0

\* C20: two get_summary calls on a usable store with no insert between them
\* yield Summary values, and the same ones.
C20_SummaryIsIdempotent ==
    (pc = "summarized" /\ connection = "open" /\ Len(summary) >= 2) =>
        /\ \A i \in DOMAIN summary :
             summary[i].raised = "None" /\ summary[i].value # {}
        /\ \A i, j \in DOMAIN summary : summary[i].value = summary[j].value

\* C16: notify calls the listeners in the order they were subscribed, one
\* after the other; the first listener that raises is the last one called,
\* and its exception is what notify raises; if none raises, all are called.
C16_NotifyInSubscriptionOrder ==
    LET n == Len(notified.called)
    IN  /\ n <= Len(notified.subscribed)
        /\ \A i \in 1..n : notified.called[i].listener = notified.subscribed[i]
        /\ \A i \in 1..(n - 1) : notified.called[i].raised = "None"
        /\ notified.raised =
             (IF n = 0 THEN "None" ELSE notified.called[n].raised)
        /\ notified.raised = "None" => n = Len(notified.subscribed)

\* C16 witness: of two subscribed listeners the first raised and the second
\* was not called.
C16_Witness ==
    /\ Len(notified.subscribed) = 2
    /\ Len(notified.called) = 1
    /\ notified.raised = "RuntimeError"

\* The module-level dispatchers each hold the one listener subscribed when
\* processor.py was imported.
ModuleLevelSubscriptions ==
    /\ on_before_process = <<"on_before_process_listener">>
    /\ on_after_process = <<"on_after_process_listener">>
    /\ on_error_process = <<"on_error_process_listener">>

\* The counters process_data returned for each file count rows of that file
\* only, and a file just opened has the counters {0, 0, 0}.
FreshCountersPerFile ==
    /\ (pc = "reading" /\ pos = 0) => stats = Stats
    /\ \A f \in DOMAIN returned_stats :
         /\ returned_stats[f].records <= input_files[f]
         /\ returned_stats[f].success + returned_stats[f].errors
              <= input_files[f]

\* C17 as stated: counters are fresh per file and not changed by another
\* file, and the subscriptions are scoped to the file: between two files
\* (before process_data is called) no listener is subscribed.
C17_NoStateSharedAcrossFiles ==
    /\ FreshCountersPerFile
    /\ pc = "process_data" =>
         /\ on_before_process = <<>>
         /\ on_after_process = <<>>
         /\ on_error_process = <<>>

\* C17 amended: counters are fresh per file and not changed by another
\* file; the subscriptions are the module-level ones, the same before,
\* during and after every file.
C17_FreshCountersSharedSubscriptions ==
    /\ FreshCountersPerFile
    /\ ModuleLevelSubscriptions

\* C17 witness: process_data has returned for two files of two rows each,
\* each with all its rows counted.
C17_Witness ==
    /\ Len(returned_stats) = 2
    /\ returned_stats[1].records = 2
    /\ returned_stats[2].records = 2
    /\ Returned

\* C24: whenever the file router is about to be called or has been called
\* for the file (move_to_archive, move_to_error, process_data returned), the
\* input and the output stream of the file are closed.
C24_StreamsClosedBeforeRouting ==
    (pc \in {"move_to_archive", "except"} \/ Returned) => ~streams_open

\* C24 witness: a file whose record loop was left by an exception has been
\* moved to the error directory.
C24_Witness ==
    Returned /\ idx \in error_dir /\ stats.records >= 1 /\ ~streams_open

\* C25: the transform runs only for a record already counted by
\* before-record; after-record (success counted) comes only when the body
\* ended normally and the row of the record is written; on-error (error
\* counted) comes only when the body of the record raised; no step counts
\* both.
C25_EventOrderPerRecord ==
    [][/\ process_calls' # process_calls =>
            stats.records = stats.success + stats.errors + 1
       /\ stats'.success > stats.success =>
            /\ pc = "exit_context" /\ exc = "None"
            /\ output_files[idx] = stats'.success
            /\ stats'.errors = stats.errors
       /\ stats'.errors > stats.errors =>
            /\ pc = "exit_context" /\ exc # "None"
            /\ stats'.success = stats.success]_vars

\* C25 witness: the second record failed after the first one was written.
C25_Witness ==
    /\ pc = "except" /\ stats.success = 1 /\ stats.errors = 1
    /\ output_files[idx] = 1 /\ process_calls[idx] = 2

\* C28: at every record boundary, and when process_data has returned,
\* success + errors = records.
C28_EveryRecordCountedOnce ==
    RecordBoundary => stats.success + stats.errors = stats.records

\* C28 witness: process_data has returned for a file of five rows with four
\* successes and one error.
C28_Witness ==
    /\ Returned /\ stats.records = 5
    /\ stats.success = 4 /\ stats.errors = 1

\* C30: with no input file the run stops before processing: no file is
\* routed, no row is inserted and no report is written.
C30_EmptyBatchStops ==
    NumFiles = 0 =>
        /\ pc \in {"list_input_files", "crashed"}
        /\ archive_dir = {} /\ error_dir = {}
        /\ rows = <<>>
        /\ report = {}
        /\ returned_stats = <<>>

\* C30 witness: the run on an empty input directory has ended.
C30_Witness ==
    NumFiles = 0 /\ pc = "crashed" /\ run_error = "RuntimeError"

RECURSIVE Pow2(_)
\* 2 to the power n.
Pow2(n) == IF n = 0 THEN 1 ELSE 2 * Pow2(n - 1)

\* start has ended, by return or by the exception of a request.
RetryEnded == pc \in {"retry_done", "retry_raised"}

\* At most `total` retries; the k-th wait is wait_time * 2^(k-1); a wait and
\* a retry come only while the status code is in retry_status.
RetryBoundedBackoff ==
    /\ attempt <= retry_config.total
    /\ Len(waits) <= retry_config.total
    /\ \A k \in DOMAIN waits : waits[k] = retry_config.wait_time * Pow2(k - 1)
    /\ pc \in {"retry_sleep", "retry_get"} =>
         status_code \in retry_config.retry_status

\* C26: start makes at most `total` retries with waits wait_time,
\* 2*wait_time, 4*wait_time, ..., retries only while the status code is in
\* retry_status, and always ends.
C26_BoundedRetryTerminates ==
    []RetryBoundedBackoff /\ <>RetryEnded

\* C26 witness: start as called from fetch_data has ended after 10 retries,
\* the last wait being 512.
C26_Witness ==
    /\ pc = "retry_done"
    /\ retry_config.total = FetchDataTotal
    /\ retry_config.wait_time = FetchDataWaitTime
    /\ attempt = FetchDataTotal
    /\ Len(waits) = FetchDataTotal
    /\ waits[FetchDataTotal] = 512

\* C29: "Failed to fetch data" has been printed after a retry only if the
\* status code of the last response is still in retry_status.
C29_FailureOnlyWhenAllRetriesFailed ==
    ("Failed to fetch data" \in printed /\ attempt >= 1) =>
        status_code \in retry_config.retry_status

\* The row lacks a required column: a field of InputData is no key of the
\* dict or has no value.
LacksRequiredColumn ==
    \E k \in InputDataFields : k \notin DOMAIN row \/ row[k].type = "NoneType"

\* C22: the body of the loop fails for a row that lacks a required column,
\* so that the record is counted as an error through the on-error channel.
C22_MissingColumnFailsRecord ==
    (pc = "record_done" /\ LacksRequiredColumn) => processed.raised # "None"

\* The number a value stands for, in hundredths: the float itself, or the
\* number the text of a numeric field denotes.
NumberOf(x) ==
    IF x.type = "float" THEN x.num ELSE IF x.text = "2" THEN 200 ELSE 400

\* The row has its three fields, with numbers in value1 and value2.
NumericRow ==
    /\ DOMAIN row = InputDataFields
    /\ \A k \in {"value1", "value2"} :
         row[k].type = "float" \/ (row[k].type = "str" /\ row[k].text \in {"2", "4"})
    /\ row.category.type = "str"

\* The value of the transform for v1, v2 (in hundredths) and category c.
ExpectedValue(v1, v2, c) ==
    CASE c = "a" -> (v1 * 150 + v2 * 50) \div 100
      [] c = "b" -> v1 + v2 * 2
      [] c = "c" -> ((v1 + v2) * 300) \div 200
      [] OTHER   -> v1 + v2

\* C23: for a row with numbers v1, v2 and a category the transform, when it
\* does not fail, gives v1*1.5 + v2*0.5 for "a", v1 + v2*2 for "b",
\* (v1+v2)/2*3 for "c" and v1 + v2 for any other category.
C23_TransformValue ==
    (pc = "record_done" /\ NumericRow /\ processed.raised = "None") =>
        processed.analysis_result =
            PyFloat(ExpectedValue(NumberOf(row.value1), NumberOf(row.value2),
                                  row.category.text))

\* The row is complete: it has all six columns, with the counters of one
\* Stats.
CompleteRow(r) ==
    /\ DOMAIN r = {"filename", "records", "success", "errors", "process_time",
                   "timestamp"}
    /\ r.success + r.errors <= r.records
    /\ r.timestamp = "timestamp"

\* C21: an insert_result call that returns has appended one complete row to
\* the table; one that raises has left the table as it was.
C21_InsertAllOrNothing ==
    [][pc' = "inserted" =>
          \/ /\ db_exc' = "None"
             /\ Len(rows') = Len(rows) + 1
             /\ SubSeq(rows', 1, Len(rows)) = rows
             /\ CompleteRow(rows'[Len(rows')])
          \/ /\ db_exc' # "None"
             /\ rows' = rows]_vars

\* C21 witness: on the table emptied by the construction an insert has
\* stored its row and a later one has failed; the table holds that row alone.
C21_Witness ==
    /\ pc = "inserted" /\ db_exc = "ProgrammingError"
    /\ discarded = MaxPriorRows /\ Len(rows) = 1

\* C27: generate and insert_result are called while the connection is open;
\* after the construction and after a `with` block the connection is closed.
C27_CallsHoldConnection ==
    /\ pc \in {"constructed", "exited"} => connection = "None"
    /\ pc = "inserted" => connection = "open"
    /\ pc = "generated" => connection = "open"

====
